---- MODULE Spec2Model ----
(***************************************************************************)
(* Model of grove-skills: the skill validator (pkg/skills/skills.go), the  *)
(* source resolution functions (pkg/skills/skills.go, pkg/skills/sync.go)  *)
(* and the install / list / sync commands (cmd/skills.go).                 *)
(*                                                                         *)
(* A string is the sequence of its characters, each element standing for   *)
(* one character, so that len() (a count of bytes) and the name regular    *)
(* expression are computed, not assumed.  A file's content is              *)
(* a sequence of lines; a line is a record [k, v] with k one of "delim"    *)
(* (a line starting with ---), "name", "description" (a YAML key: value    *)
(* line), "junk" (a line that is not valid YAML) and "text" (body text).   *)
(***************************************************************************)
EXTENDS Integers, Sequences, FiniteSets, TLC

VARIABLES
    user,       \* the user skills directory: skill name -> (relative path -> content)
    ecosystem,  \* the ecosystem notebook's skills directory, same shape
    project,    \* the project notebook's skills directory, same shape
    dest,       \* the destination roots: root path -> (entry name -> (path -> content))
    last,       \* the last invocation: its arguments, its outcome, dest before it
    edits,      \* number of changes made to the source directories so far
    out,        \* the last invocation: its mode, its flags, its exit status and message
    vin,        \* validator check: the (content, expectedName) under validation
    vout,       \* validator check: what ValidateSkillContent returned for vin
    procs,      \* concurrent invocations: process -> its arguments and position
    overlapped  \* concurrent invocations: one began while another was running

vars == <<user, ecosystem, project, dest, last, out, edits, vin, vout, procs, overlapped>>

(***************************************************************************)
(* Bounds of the model.                                                    *)
(***************************************************************************)
\* how many times the source directories are edited in one behaviour
MaxEdits == 1
\* how many pieces a validator input name is concatenated from
MaxPieces == 3
\* how many destination roots may hold entries when a further command is run
MaxRootsInUse == 1

(***************************************************************************)
(* Strings.                                                                *)
(***************************************************************************)
Rep(c, n) == [i \in 1..n |-> c]

\* the element of a one-element set; The({e(x) : x \in {v}}) is e with x standing
\* for the value of v, computed once
The(S) == CHOOSE x \in S : TRUE

STR_a == <<"a">>
STR_b == <<"b">>
STR_d == <<"d">>

\* the characters [a-z0-9] that occur in the model
AlNum == {"a", "b", "d", "1"}

\* a character whose UTF-8 encoding takes two bytes
E_ACUTE == "e_acute"

\* the characters of the model that are not ASCII, two bytes each
MultiByte == {E_ACUTE}

\* Go's len(s) of a string: the number of bytes of its UTF-8 encoding
len(s) == Len(s) + Cardinality({i \in 1..Len(s) : s[i] \in MultiByte})

\* byte order of the characters of the model, as sort.Strings compares them
Code(c) ==
    CASE c = "-" -> 45
      [] c = "1" -> 49
      [] c = "A" -> 65
      [] c = "_" -> 95
      [] c = "a" -> 97
      [] c = "b" -> 98
      [] c = "d" -> 100

RECURSIVE StrLess(_, _)
StrLess(s, t) ==
    IF t = <<>> THEN FALSE
    ELSE IF s = <<>> THEN TRUE
    ELSE IF Code(Head(s)) # Code(Head(t)) THEN Code(Head(s)) < Code(Head(t))
    ELSE StrLess(Tail(s), Tail(t))

RECURSIVE SortStrings(_)
SortStrings(S) ==
    IF S = {} THEN <<>>
    ELSE LET m == CHOOSE x \in S : \A y \in S \ {x} : StrLess(x, y)
         IN  <<m>> \o SortStrings(S \ {m})

(***************************************************************************)
(* File contents.                                                          *)
(***************************************************************************)
DelimLine == [k |-> "delim", v |-> <<>>]
NameLine(n) == [k |-> "name", v |-> n]
DescLine(d) == [k |-> "description", v |-> d]
JunkLine == [k |-> "junk", v |-> <<>>]
TextLine(t) == [k |-> "text", v |-> t]

(***************************************************************************)
(* The validator.                                                          *)
(***************************************************************************)
MaxNameLen == 64
MaxDescriptionLen == 1024

\* ^[a-z0-9]+(-[a-z0-9]+)*$ as its automaton accepts: the automaton's state after
\* a character is decided by that character alone ("in a segment" after [a-z0-9],
\* "after a hyphen" after -), so a run is accepting iff every step is allowed: a
\* hyphen only right after [a-z0-9], nothing but [a-z0-9] and -, and the run is
\* not empty and ends in a segment.
nameRegex(s) ==
    /\ Len(s) >= 1
    /\ \A i \in 1..Len(s) : s[i] \in AlNum \/ (s[i] = "-" /\ i > 1 /\ s[i - 1] \in AlNum)
    /\ s[Len(s)] \in AlNum

YamlValue(fm, key) ==
    LET I == {i \in 1..Len(fm) : fm[i].k = key}
    IN  IF I = {} THEN <<>> ELSE fm[CHOOSE i \in I : TRUE].v

\* [err |-> TRUE] or [err |-> FALSE, Name |-> ..., Description |-> ...]
parseSkillFrontmatter(content) ==
    IF ~(Len(content) >= 1 /\ content[1].k = "delim")
    THEN [err |-> TRUE, Name |-> <<>>, Description |-> <<>>]
    ELSE LET Close == {i \in 2..Len(content) : content[i].k = "delim"}
         IN  IF Close = {}
             THEN [err |-> TRUE, Name |-> <<>>, Description |-> <<>>]
             ELSE LET endIdx == CHOOSE i \in Close : \A j \in Close : i <= j
                      frontmatter == SubSeq(content, 2, endIdx - 1)
                      bad == \/ \E i \in 1..Len(frontmatter) :
                                    frontmatter[i].k \in {"junk", "text"}
                             \/ \E i, j \in 1..Len(frontmatter) :
                                    i # j /\ frontmatter[i].k = frontmatter[j].k
                  IN  IF bad
                      THEN [err |-> TRUE, Name |-> <<>>, Description |-> <<>>]
                      ELSE [err |-> FALSE,
                            Name |-> YamlValue(frontmatter, "name"),
                            Description |-> YamlValue(frontmatter, "description")]

E_MissingName == "missing required field 'name'"
E_NameTooLong == "name exceeds 64 characters"
E_NamePattern == "name must be lowercase alphanumeric with single hyphen separators"
E_NameMismatch == "name does not match directory name"
E_MissingDescription == "missing required field 'description'"
E_DescriptionTooLong == "description exceeds 1024 characters"

NameErrors(metadata, expectedName) ==
    IF metadata.Name = <<>> THEN <<E_MissingName>>
    ELSE (IF len(metadata.Name) > MaxNameLen THEN <<E_NameTooLong>> ELSE <<>>)
         \o (IF ~nameRegex(metadata.Name) THEN <<E_NamePattern>> ELSE <<>>)
         \o (IF expectedName # <<>> /\ metadata.Name # expectedName
             THEN <<E_NameMismatch>> ELSE <<>>)

DescriptionErrors(metadata) ==
    IF metadata.Description = <<>> THEN <<E_MissingDescription>>
    ELSE IF len(metadata.Description) > MaxDescriptionLen THEN <<E_DescriptionTooLong>>
    ELSE <<>>

\* [kind |-> "ok"], [kind |-> "parse"] (a plain error) or
\* [kind |-> "validation"] with SkillName and Errors (a *ValidationError)
ValidateSkillContent(content, expectedName) ==
    LET metadata == parseSkillFrontmatter(content)
    IN  IF metadata.err
        THEN [kind |-> "parse", SkillName |-> expectedName, Errors |-> <<>>]
        ELSE LET errors == NameErrors(metadata, expectedName) \o DescriptionErrors(metadata)
             IN  IF Len(errors) > 0
                 THEN [kind |-> "validation", SkillName |-> expectedName, Errors |-> errors]
                 ELSE [kind |-> "ok", SkillName |-> expectedName, Errors |-> <<>>]

(***************************************************************************)
(* Skills, sources and the workspace context.                              *)
(***************************************************************************)
\* the skill (directory) names of the model
Names == {STR_a, STR_b}

SKILL_MD == "SKILL.md"
NOTES_MD == "notes.md"

Manifest(name, tag) ==
    <<DelimLine, NameLine(name), DescLine(STR_d), DelimLine, TextLine(<<tag>>)>>

\* the directory states an edit of a source can produce for skill `name`
Artifact(kind, name, tag) ==
    CASE kind = "valid"      -> (SKILL_MD :> Manifest(name, tag))
      [] kind = "nodesc"     -> (SKILL_MD :> <<DelimLine, NameLine(name), DelimLine,
                                               TextLine(<<tag>>)>>)
      [] kind = "nomanifest" -> (NOTES_MD :> <<TextLine(<<tag>>)>>)
      [] kind = "empty"      -> <<>>

\* //go:embed data/skills : the built-in skills, fixed at build time
embeddedSkillsFS ==
    (STR_a :> ((SKILL_MD :> Manifest(STR_a, "builtin"))
               @@ (NOTES_MD :> <<TextLine(<<"builtin">>)>>)))

\* where the command is run from: outside any workspace, in a child project
\* of the ecosystem, or at the ecosystem root
Pos == {"none", "project", "eco"}

\* the child project, entered with a degraded environment: "nohome" has neither
\* XDG_CONFIG_HOME nor a home directory that os.UserHomeDir can determine,
\* "nosvc" has no service (svc == nil, as ListSkills and GetSkill pass it)
DegradedProject == {"nohome", "nosvc"}

\* getUserSkillsPath() returns no error
HomeKnown(pos) == pos # "nohome"

\* svc != nil && svc.Provider != nil && svc.NotebookLocator != nil
ServiceReady(pos) == pos # "nosvc"

\* workspace.GetProjectByPath(cwd) (external): the node of the current directory;
\* "lone" is the root of a second ecosystem, one without projects
GetProjectByPath(pos) ==
    CASE pos = "none"    -> [err |-> TRUE, Path |-> <<>>, RootEcosystemPath |-> <<>>]
      [] pos = "lone"    -> [err |-> FALSE, Path |-> <<"lone">>,
                             RootEcosystemPath |-> <<"lone">>]
      [] pos \in {"project"} \cup DegradedProject
                         -> [err |-> FALSE, Path |-> <<"eco", "projA">>,
                             RootEcosystemPath |-> <<"eco">>]
      [] pos = "eco"     -> [err |-> FALSE, Path |-> <<"eco">>,
                             RootEcosystemPath |-> <<"eco">>]

\* NotebookLocator.GetSkillsDir / GetGroupDir(node, "skills") (external): the
\* notebook skills directory of the workspace at `path`
GetSkillsDir(path) ==
    IF path = <<"eco">> THEN "ecosystem"
    ELSE IF path = <<"lone">> THEN "lone-notebook"
    ELSE "project"

\* the directory tree behind a source location
Tree(dir) ==
    CASE dir = "builtin"   -> embeddedSkillsFS
      [] dir = "user"      -> user
      [] dir = "ecosystem" -> ecosystem
      [] dir = "project"   -> project
      [] dir = "lone-notebook" -> <<>>

NotFound == [ok |-> FALSE, files |-> <<>>]

readSkillFromDisk(dir, name) ==
    IF name \notin DOMAIN Tree(dir) \/ DOMAIN Tree(dir)[name] = {}
    THEN NotFound
    ELSE [ok |-> TRUE, files |-> Tree(dir)[name]]

readSkillFromFSNoCheck(name) ==
    [ok |-> TRUE,
     files |-> IF name \in DOMAIN embeddedSkillsFS THEN embeddedSkillsFS[name] ELSE <<>>]

readSkillFromFS(name) ==
    IF name \notin DOMAIN embeddedSkillsFS \/ DOMAIN embeddedSkillsFS[name] = {}
    THEN NotFound
    ELSE [ok |-> TRUE, files |-> embeddedSkillsFS[name]]

\* skill name -> the notebook directory it was found in
findNotebookSkills(pos) ==
    LET node == GetProjectByPath(pos)
    IN  IF ~ServiceReady(pos) \/ node.err THEN <<>>
        ELSE LET skillsDir == GetSkillsDir(node.Path)
             IN  [n \in DOMAIN Tree(skillsDir) |-> skillsDir]

ListSkillsWithService(pos) ==
    LET builtin == [n \in DOMAIN embeddedSkillsFS |-> "builtin"]
        withUser == IF HomeKnown(pos) THEN [n \in DOMAIN user |-> "user"] @@ builtin
                    ELSE builtin
        notebookSkills == findNotebookSkills(pos)
        skillMap == [n \in DOMAIN notebookSkills |-> "notebook"] @@ withUser
    IN  [names |-> SortStrings(DOMAIN skillMap), sources |-> skillMap]

GetSkillWithServiceHomeRequired(pos, name) ==
    IF ~HomeKnown(pos) THEN NotFound
    ELSE LET notebookSkills == findNotebookSkills(pos)
             fromNotebook == IF name \in DOMAIN notebookSkills
                             THEN readSkillFromDisk(notebookSkills[name], name)
                             ELSE NotFound
             fromUser == readSkillFromDisk("user", name)
         IN  IF fromNotebook.ok THEN fromNotebook
             ELSE IF fromUser.ok THEN fromUser
             ELSE readSkillFromFS(name)

GetSkillWithService(pos, name) ==
    LET notebookSkills == findNotebookSkills(pos)
        fromNotebook == IF name \in DOMAIN notebookSkills
                        THEN readSkillFromDisk(notebookSkills[name], name)
                        ELSE NotFound
        fromUser == IF HomeKnown(pos) THEN readSkillFromDisk("user", name) ELSE NotFound
    IN  IF fromNotebook.ok THEN fromNotebook
        ELSE IF fromUser.ok THEN fromUser
        ELSE readSkillFromFS(name)

\* sources[name] = SkillSource{Path, Type}; Path is kept as the directory it lies in
addSkillSources(dir, sourceType, sources) ==
    [n \in DOMAIN Tree(dir) |-> [Path |-> dir, Type |-> sourceType]] @@ sources

ListSkillSources(pos) ==
    LET node == GetProjectByPath(pos)
        s1 == addSkillSources("builtin", "builtin", <<>>)
        s2 == IF HomeKnown(pos) THEN addSkillSources("user", "user", s1) ELSE s1
        s3 == IF ~node.err /\ node.RootEcosystemPath # <<>>
              THEN addSkillSources(GetSkillsDir(node.RootEcosystemPath), "ecosystem", s2)
              ELSE s2
        s4 == IF ~node.err
              THEN addSkillSources(GetSkillsDir(node.Path), "project", s3)
              ELSE s3
    IN  s4

\* the collection step of SyncSkillsToDirectory: skill name -> source directory
collectSkillsFromDir(dir, skillSources) ==
    [n \in DOMAIN Tree(dir) |-> dir] @@ skillSources

SyncSkillsToDirectoryCollect(pos) ==
    LET node == GetProjectByPath(pos)
        c1 == IF HomeKnown(pos) THEN collectSkillsFromDir("user", <<>>) ELSE <<>>
        c2 == IF node.RootEcosystemPath # <<>>
              THEN collectSkillsFromDir(GetSkillsDir(node.RootEcosystemPath), c1)
              ELSE c1
        c3 == collectSkillsFromDir(GetSkillsDir(node.Path), c2)
    IN  c3

(***************************************************************************)
(* Destinations.                                                           *)
(***************************************************************************)
\* os.Getwd() for each position
Cwd(pos) ==
    CASE pos = "none"    -> <<"work">>
      [] pos = "lone"    -> <<"lone">>
      [] pos \in {"project"} \cup DegradedProject -> <<"eco", "projA">>
      [] pos = "eco"     -> <<"eco">>

\* git.GetGitRoot(cwd) (external): the ecosystem is one repository
GetGitRoot(cwd) ==
    IF cwd = <<"work">> THEN <<"work">>
    ELSE IF cwd = <<"lone">> THEN <<"lone">>
    ELSE <<"eco">>

getInstallPathAdminWithDot(provider, scope, pos) ==
    LET bad == [err |-> TRUE, path |-> <<>>]
        root == CASE scope = "user"      -> <<"home">>
                  [] scope = "project"   -> Cwd(pos)
                  [] scope = "repo-root" -> GetGitRoot(Cwd(pos))
                  [] scope = "admin"     -> <<"etc">>
                  [] OTHER               -> <<>>
        suffix == CASE provider = "claude"   -> <<".claude", "skills">>
                    [] provider = "codex"    -> <<".codex", "skills">>
                    [] provider = "opencode" -> <<".opencode", "skill">>
                    [] OTHER                 -> <<>>
    IN  IF scope \notin {"user", "project", "repo-root", "admin"} THEN bad
        ELSE IF scope = "user" /\ ~HomeKnown(pos) THEN bad
        ELSE IF scope = "admin" /\ provider # "codex" THEN bad
        ELSE IF provider \notin {"claude", "codex", "opencode"} THEN bad
        ELSE [err |-> FALSE, path |-> root \o suffix]

\* [err |-> TRUE] or [err |-> FALSE, path |-> the destination root]
getInstallPath(provider, scope, pos) ==
    LET bad == [err |-> TRUE, path |-> <<>>]
        root == CASE scope = "user"      -> <<"home">>
                  [] scope = "project"   -> Cwd(pos)
                  [] scope = "repo-root" -> GetGitRoot(Cwd(pos))
                  [] scope = "admin"     -> <<"etc">>
                  [] OTHER               -> <<>>
        suffix == CASE provider = "claude"   -> <<".claude", "skills">>
                    [] provider = "codex"    -> IF scope = "admin"
                                                THEN <<"codex", "skills">>
                                                ELSE <<".codex", "skills">>
                    [] provider = "opencode" -> <<".opencode", "skill">>
                    [] OTHER                 -> <<>>
    IN  IF scope \notin {"user", "project", "repo-root", "admin"} THEN bad
        ELSE IF scope = "user" /\ ~HomeKnown(pos) THEN bad
        ELSE IF scope = "admin" /\ provider # "codex" THEN bad
        ELSE IF provider \notin {"claude", "codex", "opencode"} THEN bad
        ELSE [err |-> FALSE, path |-> root \o suffix]

\* getInstallPathForDir: as getInstallPath, with baseDir in the place of the
\* current directory
getInstallPathForDir(provider, scope, baseDir) ==
    LET bad == [err |-> TRUE, path |-> <<>>]
        root == CASE scope = "user"      -> <<"home">>
                  [] scope = "project"   -> baseDir
                  [] scope = "repo-root" -> GetGitRoot(baseDir)
                  [] scope = "admin"     -> <<"etc">>
                  [] OTHER               -> <<>>
        suffix == CASE provider = "claude"   -> <<".claude", "skills">>
                    [] provider = "codex"    -> IF scope = "admin"
                                                THEN <<"codex", "skills">>
                                                ELSE <<".codex", "skills">>
                    [] provider = "opencode" -> <<".opencode", "skill">>
                    [] OTHER                 -> <<>>
    IN  IF scope \notin {"user", "project", "repo-root", "admin"} THEN bad
        ELSE IF scope = "admin" /\ provider # "codex" THEN bad
        ELSE IF provider \notin {"claude", "codex", "opencode"} THEN bad
        ELSE [err |-> FALSE, path |-> root \o suffix]

GetSkillsDirectoryForWorktree(worktreePath, provider) ==
    CASE provider = "codex"    -> worktreePath \o <<".codex", "skills">>
      [] provider = "opencode" -> worktreePath \o <<".opencode", "skill">>
      [] OTHER                 -> worktreePath \o <<".claude", "skills">>

\* svc.Provider.All() (external): the workspaces discovery knows.  The ecosystem
\* "eco" has the project projA, a worktree of itself (feat) and the project projB
\* checked out inside that worktree; the ecosystem "lone" has nothing.
WorkspaceNodes ==
    { [Path |-> <<"eco">>, ParentEcosystemPath |-> <<>>,
       RootEcosystemPath |-> <<"eco">>, Kind |-> "ecosystem"],
      [Path |-> <<"eco", "projA">>, ParentEcosystemPath |-> <<"eco">>,
       RootEcosystemPath |-> <<"eco">>, Kind |-> "project"],
      [Path |-> <<"eco", "feat">>, ParentEcosystemPath |-> <<"eco">>,
       RootEcosystemPath |-> <<"eco">>, Kind |-> "worktree"],
      [Path |-> <<"eco", "feat", "projB">>, ParentEcosystemPath |-> <<"eco", "feat">>,
       RootEcosystemPath |-> <<"eco">>, Kind |-> "project"],
      [Path |-> <<"lone">>, ParentEcosystemPath |-> <<>>,
       RootEcosystemPath |-> <<"lone">>, Kind |-> "ecosystem"] }

\* svc.Provider.FindByPath(cwd): the set holding the node of cwd, empty for nil
FindByPath(cwd) == {p \in WorkspaceNodes : p.Path = cwd}

IsEcosystemAlways(node) == TRUE

IsEcosystem(node) == node.Kind = "ecosystem"

IsWorktree(node) == node.Kind = "worktree"

childProjectsWithWorktrees(node) ==
    {p \in WorkspaceNodes :
        /\ p.ParentEcosystemPath = node.Path \/ p.RootEcosystemPath = node.Path
        /\ p.Path # node.Path}

childProjectsWithSelf(node) ==
    {p \in WorkspaceNodes :
        /\ p.ParentEcosystemPath = node.Path \/ p.RootEcosystemPath = node.Path
        /\ ~IsWorktree(p)}

\* the isChild filter of the ecosystem sync
childProjects(node) ==
    {p \in WorkspaceNodes :
        /\ p.ParentEcosystemPath = node.Path \/ p.RootEcosystemPath = node.Path
        /\ ~IsWorktree(p)
        /\ p.Path # node.Path}

\* the --scope and --provider values the commands are invoked with
ScopeInputs == {"user"}
ProviderInputs == {"claude"}

\* every directory a destination root can lie under, and every provider suffix
BaseDirs ==
    {<<"home">>, <<"etc">>, <<"work">>} \cup {p.Path : p \in WorkspaceNodes}

SuffixDirs ==
    {<<".claude", "skills">>, <<".codex", "skills">>, <<"codex", "skills">>,
     <<".opencode", "skill">>}

Roots == {b \o x : b \in BaseDirs, x \in SuffixDirs}

(***************************************************************************)
(* Paths.  A path is the sequence of its components, each component the    *)
(* string of its characters, so that filepath.Join of a destination root   *)
(* with an argument holding separators, "." or ".." is computed.           *)
(***************************************************************************)
\* the directory and file names of the model, spelled
Spell(c) ==
    CASE c = "home"       -> <<"h", "o", "m", "e">>
      [] c = "etc"        -> <<"e", "t", "c">>
      [] c = "work"       -> <<"w", "o", "r", "k">>
      [] c = "eco"        -> <<"e", "c", "o">>
      [] c = "projA"      -> <<"p", "r", "o", "j", "A">>
      [] c = "feat"       -> <<"f", "e", "a", "t">>
      [] c = "projB"      -> <<"p", "r", "o", "j", "B">>
      [] c = "lone"       -> <<"l", "o", "n", "e">>
      [] c = ".claude"    -> <<".", "c", "l", "a", "u", "d", "e">>
      [] c = ".codex"     -> <<".", "c", "o", "d", "e", "x">>
      [] c = "codex"      -> <<"c", "o", "d", "e", "x">>
      [] c = ".opencode"  -> <<".", "o", "p", "e", "n", "c", "o", "d", "e">>
      [] c = "skills"     -> <<"s", "k", "i", "l", "l", "s">>
      [] c = "skill"      -> <<"s", "k", "i", "l", "l">>
      [] c = ".config"    -> <<".", "c", "o", "n", "f", "i", "g">>
      [] c = "grove"      -> <<"g", "r", "o", "v", "e">>
      [] c = "SKILL.md"   -> <<"S", "K", "I", "L", "L", ".", "m", "d">>
      [] c = "notes.md"   -> <<"n", "o", "t", "e", "s", ".", "m", "d">>

PathChars(path) == [i \in 1..Len(path) |-> Spell(path[i])]

\* the string made of the components joined by separators
RECURSIVE Arg(_)
Arg(comps) ==
    IF Len(comps) = 1 THEN Head(comps)
    ELSE Head(comps) \o <<"/">> \o Arg(Tail(comps))

\* the components of a string, split at the separators
RECURSIVE Split(_)
Split(s) ==
    LET I == {i \in 1..Len(s) : s[i] = "/"}
    IN  IF I = {} THEN <<s>>
        ELSE LET i == CHOOSE j \in I : \A k \in I : j <= k
             IN  <<SubSeq(s, 1, i - 1)>> \o Split(SubSeq(s, i + 1, Len(s)))

\* filepath.Clean, a component at a time: empty components and "." are dropped,
\* ".." drops the component before it
RECURSIVE Clean(_, _)
Clean(stack, comps) ==
    IF comps = <<>> THEN stack
    ELSE LET c == Head(comps)
             next == IF c \in {<<>>, <<".">>} THEN stack
                     ELSE IF c = <<".", ".">>
                     THEN (IF stack = <<>> THEN <<>> ELSE SubSeq(stack, 1, Len(stack) - 1))
                     ELSE Append(stack, c)
         IN  Clean(next, Tail(comps))

\* filepath.Join(basePath, name)
Join(basePath, name) == Clean(PathChars(basePath), Split(name))

IsPrefix(p, q) == Len(p) <= Len(q) /\ SubSeq(q, 1, Len(p)) = p

\* getUserSkillsPath() with XDG_CONFIG_HOME unset: $HOME/.config/grove/skills
UserSkillsPath == <<"home", ".config", "grove", "skills">>

\* the directories that exist whatever has been installed
FixedDirs == {<<"home">>, <<"etc">>, <<"work">>} \cup {p.Path : p \in WorkspaceNodes}

\* the paths of a skill directory `name` under the directory `dir`, and of its files
EntryPath(dir, name) == PathChars(dir) \o <<name>>

FilePath(dir, name, f) == PathChars(dir) \o <<name, Spell(f)>>

\* what is left of the tree `tree` lying at `dir` after os.RemoveAll(path)
TreeWithout(tree, dir, path) ==
    [n \in {m \in DOMAIN tree : ~IsPrefix(path, EntryPath(dir, m))} |->
        [f \in {g \in DOMAIN tree[n] : path # FilePath(dir, n, g)} |-> tree[n][f]]]

\* os.Stat(path) finds something: a fixed directory or one above it, a skill
\* directory or one above it, or a file of a skill.  A destination root and the
\* user skills directory exist when they hold a skill directory.
Exists(path) ==
    \/ \E d \in FixedDirs : IsPrefix(path, PathChars(d))
    \/ \E r \in Roots : TreeWithout(dest[r], r, path) # dest[r]
    \/ TreeWithout(user, UserSkillsPath, path) # user

(***************************************************************************)
(* installSkill and pruneSkills, on the entries d of one destination root. *)
(***************************************************************************)
RemoveAllNoop(d, name) == d

\* os.RemoveAll(basePath/name)
RemoveAll(d, name) == [n \in DOMAIN d \ {name} |-> d[n]]

\* os.MkdirAll(basePath/name), then os.WriteFile of every file of the skill
WriteFiles(d, name, skillFiles) ==
    LET old == IF name \in DOMAIN d THEN d[name] ELSE <<>>
    IN  (name :> (skillFiles @@ old)) @@ d

\* the manifest check of installSkill: "ok" or the error it returns
CheckManifest(skillFiles, name, skipValidation) ==
    IF skipValidation THEN "ok"
    ELSE IF SKILL_MD \in DOMAIN skillFiles
    THEN (IF ValidateSkillContent(skillFiles[SKILL_MD], name).kind = "ok"
          THEN "ok" ELSE "invalid")
    ELSE "nomanifest"

installSkillNoGate(d, name, force, skipValidation, pos) ==
    LET got == GetSkillWithService(pos, name)
        chk == CheckManifest(got.files, name, skipValidation)
    IN  IF ~got.ok THEN [res |-> "notfound", d |-> d]
        ELSE IF chk # "ok" THEN [res |-> chk, d |-> d]
        ELSE [res |-> "ok",
              d |-> WriteFiles(IF name \in DOMAIN d THEN RemoveAll(d, name) ELSE d,
                               name, got.files)]

installSkillRemoveFirst(d, name, force, skipValidation, pos) ==
    LET got == GetSkillWithService(pos, name)
        chk == CheckManifest(got.files, name, skipValidation)
        cleared == IF name \in DOMAIN d /\ force THEN RemoveAll(d, name) ELSE d
    IN  IF ~got.ok THEN [res |-> "notfound", d |-> cleared]
        ELSE IF chk # "ok" THEN [res |-> chk, d |-> cleared]
        ELSE IF name \in DOMAIN d /\ ~force THEN [res |-> "exists", d |-> d]
        ELSE [res |-> "ok", d |-> WriteFiles(cleared, name, got.files)]

\* [res |-> "ok" or the error, d |-> the entries afterwards]
installSkill(d, name, force, skipValidation, pos) ==
    The({ IF ~got.ok THEN [res |-> "notfound", d |-> d]
          ELSE The({ IF chk # "ok" THEN [res |-> chk, d |-> d]
                     ELSE IF name \in DOMAIN d /\ ~force THEN [res |-> "exists", d |-> d]
                     ELSE [res |-> "ok",
                           d |-> WriteFiles(IF name \in DOMAIN d THEN RemoveAll(d, name)
                                            ELSE d,
                                            name, got.files)]
                     : chk \in {CheckManifest(got.files, name, skipValidation)} })
          : got \in {GetSkillWithService(pos, name)} })

RECURSIVE installEachStopAtFailure(_, _, _, _, _)
installEachStopAtFailure(d, names, force, skipValidation, pos) ==
    IF names = <<>> THEN [d |-> d, results |-> <<>>]
    ELSE LET one == installSkill(d, Head(names), force, skipValidation, pos)
             rest == IF one.res = "ok"
                     THEN installEachStopAtFailure(one.d, Tail(names), force,
                                                   skipValidation, pos)
                     ELSE [d |-> one.d, results |-> <<>>]
         IN  [d |-> rest.d, results |-> (Head(names) :> one.res) @@ rest.results]

RECURSIVE installEachRollback(_, _, _, _, _)
installEachRollback(d, names, force, skipValidation, pos) ==
    IF names = <<>> THEN [d |-> d, results |-> <<>>]
    ELSE LET one == installSkill(d, Head(names), force, skipValidation, pos)
             rest == installEachRollback(one.d, Tail(names), force, skipValidation, pos)
             results == (Head(names) :> one.res) @@ rest.results
         IN  [d |-> IF \E n \in DOMAIN results : results[n] # "ok" THEN d ELSE rest.d,
              results |-> results]

\* the loop `for _, skillName := range allSkills { installSkill(...) }`:
\* [d |-> entries afterwards, results |-> skill name -> outcome of its install]
RECURSIVE installEach(_, _, _, _, _)
installEach(d, names, force, skipValidation, pos) ==
    IF names = <<>> THEN [d |-> d, results |-> <<>>]
    ELSE The({ The({ [d |-> rest.d,
                      results |-> (Head(names) :> one.res) @@ rest.results]
                     : rest \in {installEach(one.d, Tail(names), force,
                                             skipValidation, pos)} })
               : one \in {installSkill(d, Head(names), force, skipValidation, pos)} })

\* the `installed` map the standard sync hands to pruneSkills
installedMapOnSuccess(names, results) ==
    {n \in DOMAIN results : results[n] = "ok"}

installedMap(names, results) == {names[i] : i \in 1..Len(names)}

pruneSkillsNothing(d, installed) == d

pruneSkills(d, installed) == [n \in DOMAIN d \cap installed |-> d[n]]

(***************************************************************************)
(* The commands.  Each invocation is one action: the commands run to       *)
(* completion on a single thread.                                          *)
(***************************************************************************)
\* how one run ended: exit "ok" (RunE returned nil) or "error", the message that
\* tells the outcomes apart, and the mode, --scope and --provider it ran with
\* no count of skills was printed
NoCount == [said |-> FALSE, n |-> 0]

\* the count of skills a success message states
Count(n) == [said |-> TRUE, n |-> n]

Outcome(exit, msg, mode, scope, provider) ==
    [exit |-> exit, msg |-> msg, mode |-> mode, scope |-> scope, provider |-> provider,
     count |-> NoCount]

NoOutcome == Outcome("none", "", "", "", "")

Invocation(op, name, force, skip, prune, pos, root, results, listed) ==
    [op |-> op, name |-> name, force |-> force, skip |-> skip, prune |-> prune,
     pos |-> pos, root |-> root, results |-> results, listed |-> listed, pre |-> dest,
     src |-> [user |-> user, ecosystem |-> ecosystem, project |-> project]]

\* what `list` prints: skill name -> SOURCE column
listSkillsLegacy(pos) == ListSkillsWithService(pos).sources

\* ListSkillSources gets the service of the run, or, when there is none, the one
\* NewServiceForNode(node) makes, which has a NotebookLocator
newSkillsListCmd(pos) ==
    IF GetProjectByPath(pos).err THEN listSkillsLegacy(pos)
    ELSE LET sources == ListSkillSources(pos)
         IN  [n \in DOMAIN sources |-> sources[n].Type]

NoManifestInput == [parses |-> FALSE, name |-> <<>>, description |-> <<>>]
NoValidation == [content |-> <<>>, expectedName |-> <<>>, manifest |-> NoManifestInput]
NotValidated == [kind |-> "none", SkillName |-> <<>>, Errors |-> <<>>]

SystemOnly == vin = NoValidation /\ vout = NotValidated

\* the invocations that may run side by side: two runs of the binary
Procs == {"p1", "p2"}

\* a process that has not begun
Idle ==
    [pc |-> "idle", op |-> "none", pos |-> "none", force |-> FALSE, skip |-> FALSE,
     prune |-> FALSE, root |-> <<>>, queue |-> <<>>, files |-> <<>>, todo |-> {},
     cur |-> "", installed |-> {}, entries |-> <<>>, res |-> <<>>]

\* no invocation runs beside the one at hand
OneAtATime == procs = [p \in Procs |-> Idle] /\ overlapped = FALSE

\* install <name>
Install(name, force, skip, pos, provider, scope) ==
    \E basePath \in {getInstallPath(provider, scope, pos)} :
        /\ IF basePath.err
           THEN /\ dest' = dest
                /\ last' = Invocation("install", name, force, skip, FALSE, pos, <<>>,
                                      (name :> "scope"), <<>>)
                /\ out' = Outcome("error", "scope", "install", scope, provider)
           ELSE \E r \in {installSkill(dest[basePath.path], name, force, skip, pos)} :
                    /\ dest' = [dest EXCEPT ![basePath.path] = r.d]
                    /\ last' = Invocation("install", name, force, skip, FALSE, pos,
                                          basePath.path, (name :> r.res), <<>>)
                    /\ out' = Outcome(IF r.res = "ok" THEN "ok" ELSE "error", r.res,
                                      "install", scope, provider)
        /\ UNCHANGED <<user, ecosystem, project, edits, vin, vout, procs, overlapped>>

\* install all
InstallAll(force, skip, pos, provider, scope) ==
    \E basePath \in {getInstallPath(provider, scope, pos)} :
        /\ IF basePath.err
           THEN /\ dest' = dest
                /\ last' = Invocation("install-all", <<>>, force, skip, FALSE, pos, <<>>,
                                      <<>>, <<>>)
                /\ out' = Outcome("error", "scope", "install-all", scope, provider)
           ELSE \E r \in {installEach(dest[basePath.path],
                                         ListSkillsWithService(pos).names,
                                         force, skip, pos)} :
                    /\ dest' = [dest EXCEPT ![basePath.path] = r.d]
                    /\ last' = Invocation("install-all", <<>>, force, skip, FALSE, pos,
                                          basePath.path, r.results, <<>>)
                    /\ out' = [Outcome("ok", "installed-all", "install-all", scope,
                                        provider)
                                EXCEPT !.count = Count(Len(ListSkillsWithService(pos).names))]
        /\ UNCHANGED <<user, ecosystem, project, edits, vin, vout, procs, overlapped>>

syncForceOff == FALSE

\* "Sync always overwrites (force=true)": the force argument sync hands to installSkill
syncForce == TRUE

standardSyncAlwaysPrune(d, prune, skip, pos) ==
    LET allSkills == ListSkillsWithService(pos).names
        r == installEach(d, allSkills, syncForce, skip, pos)
    IN  [d |-> pruneSkills(r.d, installedMap(allSkills, r.results)), results |-> r.results]

\* the standard sync on the entries d of its destination root: the install loop,
\* the installed map and the optional prune
standardSync(d, prune, skip, pos) ==
    The({ The({ [d |-> IF prune
                       THEN The({ pruneSkills(r.d, installed)
                                  : installed \in {installedMap(allSkills, r.results)} })
                       ELSE r.d,
                 results |-> r.results]
                : r \in {installEach(d, allSkills, syncForce, skip, pos)} })
          : allSkills \in {ListSkillsWithService(pos).names} })

\* sync (standard single-project sync)
Sync(prune, skip, pos, provider, scope) ==
    \E basePath \in {getInstallPath(provider, scope, pos)} :
        /\ IF basePath.err
           THEN /\ dest' = dest
                /\ last' = Invocation("sync", <<>>, TRUE, skip, prune, pos, <<>>,
                                      <<>>, <<>>)
                /\ out' = Outcome("error", "scope", "sync", scope, provider)
           ELSE \E r \in {standardSync(dest[basePath.path], prune, skip, pos)} :
                    /\ dest' = [dest EXCEPT ![basePath.path] = r.d]
                    /\ last' = Invocation("sync", <<>>, TRUE, skip, prune, pos,
                                          basePath.path, r.results, <<>>)
                    /\ out' = Outcome("ok", "sync-complete", "sync", scope, provider)
        /\ UNCHANGED <<user, ecosystem, project, edits, vin, vout, procs, overlapped>>

newSkillsRemoveCmdSilent(basePath, name) ==
    LET skillPath == Join(basePath, name)
    IN  [err |-> FALSE,
         dest |-> [r \in Roots |-> TreeWithout(dest[r], r, skillPath)],
         user |-> TreeWithout(user, UserSkillsPath, skillPath)]

\* remove <name>: os.Stat and os.RemoveAll of filepath.Join(basePath, name);
\* [err, dest |-> the destination roots afterwards, user |-> the user directory]
newSkillsRemoveCmd(basePath, name) ==
    LET skillPath == Join(basePath, name)
    IN  IF ~Exists(skillPath) THEN [err |-> TRUE, dest |-> dest, user |-> user]
        ELSE [err |-> FALSE,
              dest |-> [r \in Roots |-> TreeWithout(dest[r], r, skillPath)],
              user |-> TreeWithout(user, UserSkillsPath, skillPath)]

\* remove <name>
Remove(name, pos, provider, scope) ==
    \E basePath \in {getInstallPath(provider, scope, pos)} :
        /\ IF basePath.err
           THEN /\ dest' = dest
                /\ user' = user
                /\ last' = Invocation("remove", name, FALSE, FALSE, FALSE, pos, <<>>,
                                      <<>>, <<>>)
                /\ out' = Outcome("error", "scope", "remove", scope, provider)
           ELSE \E r \in {newSkillsRemoveCmd(basePath.path, name)} :
                    /\ dest' = r.dest
                    /\ user' = r.user
                    /\ last' = Invocation("remove", name, FALSE, FALSE, FALSE, pos,
                                          basePath.path, <<>>, <<>>)
                    /\ out' = IF r.err
                              THEN Outcome("error", "notfound", "remove", scope, provider)
                              ELSE Outcome("ok", "removed", "remove", scope, provider)
        /\ UNCHANGED <<ecosystem, project, edits, vin, vout, procs, overlapped>>

\* sync --ecosystem
EcosystemSync(prune, skip, pos, provider, scope) ==
    LET found == FindByPath(Cwd(pos))
        node == CHOOSE p \in found : TRUE
        allSkills == ListSkillsWithService(pos).names
        children == childProjects(node)
        target(p) == getInstallPathForDir(provider, "project", p.Path)
        written == {target(p).path : p \in {q \in children : ~target(q).err}}
        run(mode, exit, msg, d) ==
            /\ dest' = d
            /\ last' = Invocation(mode, <<>>, TRUE, skip, prune, pos, <<>>, <<>>, <<>>)
            /\ out' = Outcome(exit, msg, mode, scope, provider)
    IN  /\ IF ~ServiceReady(pos)
           THEN run("sync-ecosystem", "error", "no-discovery", dest)
           ELSE IF found = {}
           THEN run("sync-ecosystem", "error", "no-workspace", dest)
           ELSE IF ~IsEcosystem(node)
           THEN run("sync-ecosystem", "error", "not-ecosystem", dest)
           ELSE IF allSkills = <<>>
           THEN run("sync-ecosystem", "ok", "no-skills", dest)
           ELSE IF children = {}
           THEN run("sync-ecosystem", "ok", "no-children", dest)
           ELSE \E paths \in {written} :
                    run("sync-ecosystem", "ok", "ecosystem-complete",
                        [r \in DOMAIN dest |->
                            IF r \in paths
                            THEN standardSync(dest[r], prune, skip, pos).d
                            ELSE dest[r]])
        /\ UNCHANGED <<user, ecosystem, project, edits, vin, vout, procs, overlapped>>

\* fs.CopyDir(srcPath, destPath) (external) for every collected skill: the files
\* of the source directory are written over the destination directory
CopyDirs(d, skillSources) ==
    [n \in DOMAIN d \cup DOMAIN skillSources |->
        IF n \in DOMAIN skillSources
        THEN Tree(skillSources[n])[n] @@ (IF n \in DOMAIN d THEN d[n] ELSE <<>>)
        ELSE d[n]]

\* sync --here; the --prune flag is accepted and not read in this mode
HereSync(prune, pos, provider, scope) ==
    LET node == GetProjectByPath(pos)
        destDir == GetSkillsDirectoryForWorktree(GetGitRoot(Cwd(pos)), provider)
        skillSources == SyncSkillsToDirectoryCollect(pos)
        syncedCount == Cardinality(DOMAIN skillSources)
    IN  /\ IF node.err
           THEN /\ dest' = dest
                /\ last' = Invocation("sync-here", <<>>, TRUE, FALSE, prune, pos, <<>>,
                                      <<>>, <<>>)
                /\ out' = Outcome("error", "no-workspace", "sync-here", scope, provider)
           ELSE /\ dest' = [dest EXCEPT ![destDir] = CopyDirs(@, skillSources)]
                /\ last' = Invocation("sync-here", <<>>, TRUE, FALSE, prune, pos, destDir,
                                      [n \in DOMAIN skillSources |-> "ok"], <<>>)
                /\ out' = IF syncedCount > 0
                          THEN [Outcome("ok", "synced", "sync-here", scope, provider)
                                EXCEPT !.count = Count(syncedCount)]
                          ELSE Outcome("ok", "no-skills", "sync-here", scope, provider)
        /\ UNCHANGED <<user, ecosystem, project, edits, vin, vout, procs, overlapped>>

\* list
List(pos) ==
    /\ last' = Invocation("list", <<>>, FALSE, FALSE, FALSE, pos, <<>>, <<>>,
                          newSkillsListCmd(pos))
    /\ out' = Outcome("ok", "listed", "list", "", "")
    /\ UNCHANGED <<user, ecosystem, project, dest, edits, vin, vout, procs, overlapped>>

(***************************************************************************)
(* The environment: somebody edits a source directory between invocations. *)
(***************************************************************************)
EditableSources == {"user", "ecosystem", "project"}

\* the directory states an edit may leave for a skill ("absent": directory removed)
Kinds(src) ==
    CASE src = "user"      -> {"absent", "valid", "nodesc", "nomanifest", "empty"}
      [] src = "ecosystem" -> {"absent", "valid"}
      [] src = "project"   -> {"absent", "valid", "empty"}

Edited(tree, src, name, kind) ==
    IF kind = "absent" THEN [n \in DOMAIN tree \ {name} |-> tree[n]]
    ELSE (name :> Artifact(kind, name, src)) @@ tree

EditSource(src, name, kind) ==
    /\ edits < MaxEdits
    /\ Edited(Tree(src), src, name, kind) # Tree(src)
    /\ user' = IF src = "user" THEN Edited(user, src, name, kind) ELSE user
    /\ ecosystem' = IF src = "ecosystem" THEN Edited(ecosystem, src, name, kind)
                    ELSE ecosystem
    /\ project' = IF src = "project" THEN Edited(project, src, name, kind) ELSE project
    /\ edits' = edits + 1
    /\ last' = Invocation("edit", name, FALSE, FALSE, FALSE, "none", <<>>, <<>>, <<>>)
    /\ out' = NoOutcome
    /\ UNCHANGED <<dest, vin, vout, procs, overlapped>>

Init ==
    /\ user = <<>>
    /\ ecosystem = <<>>
    /\ project = <<>>
    /\ dest = [r \in Roots |-> <<>>]
    /\ last = [op |-> "none", name |-> <<>>, force |-> FALSE, skip |-> FALSE,
               prune |-> FALSE, pos |-> "none", root |-> <<>>, results |-> <<>>,
               listed |-> <<>>, pre |-> [r \in Roots |-> <<>>],
               src |-> [user |-> <<>>, ecosystem |-> <<>>, project |-> <<>>]]
    /\ out = NoOutcome
    /\ edits = 0
    /\ SystemOnly
    /\ OneAtATime

Next ==
    \/ \E name \in Names, force \in BOOLEAN, skip \in BOOLEAN, pos \in Pos,
          provider \in ProviderInputs, scope \in ScopeInputs :
            Install(name, force, skip, pos, provider, scope)
    \/ \E force \in BOOLEAN, skip \in BOOLEAN, pos \in Pos,
          provider \in ProviderInputs, scope \in ScopeInputs :
            InstallAll(force, skip, pos, provider, scope)
    \/ \E prune \in BOOLEAN, skip \in BOOLEAN, pos \in Pos,
          provider \in ProviderInputs, scope \in ScopeInputs :
            Sync(prune, skip, pos, provider, scope)
    \/ \E name \in Names, pos \in Pos, provider \in ProviderInputs, scope \in ScopeInputs :
            Remove(name, pos, provider, scope)
    \/ \E pos \in Pos : List(pos)
    \/ \E src \in EditableSources, name \in Names :
          \E kind \in Kinds(src) : EditSource(src, name, kind)

Spec == Init /\ [][Next]_vars

(***************************************************************************)
(* The commands under every --scope and --provider, and the sync modes     *)
(* --ecosystem and --here, run while fewer than MaxRootsInUse destination  *)
(* roots hold entries.                                                     *)
(***************************************************************************)
\* --scope and --provider values: the supported ones, and one that is not
AllScopes == {"user", "project", "repo-root", "admin", "global"}
AllProviders == {"claude", "codex", "opencode", "cursor"}

\* the values the flags that the mode at hand does not read are given
ModeScopes == {"user", "global"}
ModeProviders == {"claude", "cursor"}

AllPos == Pos \cup {"lone"}

RootsInUse == Cardinality({r \in Roots : dest[r] # <<>>})

NextScopes ==
    \/ \E pos \in Pos, provider \in AllProviders, scope \in AllScopes :
          RootsInUse < MaxRootsInUse /\ Install(STR_a, FALSE, FALSE, pos, provider, scope)
    \/ \E provider \in AllProviders, scope \in AllScopes :
          RootsInUse < MaxRootsInUse /\ Remove(STR_a, "project", provider, scope)
    \/ \E provider \in AllProviders, scope \in AllScopes :
          RootsInUse < MaxRootsInUse /\ Sync(TRUE, FALSE, "project", provider, scope)
    \/ \E prune \in BOOLEAN, pos \in AllPos, provider \in ModeProviders,
          scope \in ModeScopes :
          RootsInUse < MaxRootsInUse /\ EcosystemSync(prune, FALSE, pos, provider, scope)
    \/ \E pos \in AllPos, provider \in ModeProviders, scope \in ModeScopes :
          RootsInUse < MaxRootsInUse /\ HereSync(FALSE, pos, provider, scope)
    \/ RootsInUse < MaxRootsInUse /\ EditSource("ecosystem", STR_b, "valid")

SpecScopes == Init /\ [][NextScopes]_vars

(***************************************************************************)
(* The three modes of sync, with and without --prune, on the destination   *)
(* roots inside the ecosystem: install fills the project and repo-root     *)
(* roots from the project and from the ecosystem root, and each mode of    *)
(* sync then runs over what is there.                                      *)
(***************************************************************************)
\* the positions inside the ecosystem
InsidePos == {"project", "eco"}

\* the scopes whose destination root lies inside the ecosystem
InsideScopes == {"project", "repo-root"}

NextModes ==
    \/ \E name \in Names, pos \in InsidePos, scope \in InsideScopes :
          Install(name, FALSE, FALSE, pos, "claude", scope)
    \/ \E prune \in BOOLEAN, pos \in InsidePos, scope \in InsideScopes :
          Sync(prune, FALSE, pos, "claude", scope)
    \/ \E prune \in BOOLEAN, pos \in InsidePos :
          EcosystemSync(prune, FALSE, pos, "claude", "user")
    \/ \E prune \in BOOLEAN, pos \in Pos : HereSync(prune, pos, "claude", "user")
    \/ \E src \in EditableSources, name \in Names : EditSource(src, name, "valid")

SpecModes == Init /\ [][NextModes]_vars

(***************************************************************************)
(* The commands in a degraded environment: outside any workspace, without  *)
(* a home directory, without a service.                                    *)
(***************************************************************************)
DegradedPos == {"none"} \cup DegradedProject

\* the scopes tried there: the default one, which needs the home directory, and
\* one that does not
DegradedScopes == {"user", "project"}

NextDegraded ==
    \/ \E name \in Names, force \in BOOLEAN, pos \in DegradedPos, scope \in DegradedScopes :
          Install(name, force, FALSE, pos, "claude", scope)
    \/ \E pos \in DegradedPos, scope \in DegradedScopes :
          InstallAll(FALSE, FALSE, pos, "claude", scope)
    \/ \E prune \in BOOLEAN, pos \in DegradedPos, scope \in DegradedScopes :
          Sync(prune, FALSE, pos, "claude", scope)
    \/ \E pos \in DegradedPos : List(pos)
    \/ \E src \in {"user", "project"}, name \in Names : EditSource(src, name, "valid")

SpecDegraded == Init /\ [][NextDegraded]_vars

(***************************************************************************)
(* remove with arguments that are not plain skill names, on the user-scope *)
(* roots of two providers and with the user skills directory in the same   *)
(* home directory.                                                         *)
(***************************************************************************)
DotDot == <<".", ".">>

\* the <name> arguments of remove: a skill name, the empty string, ".", "..",
\* a/../b, ../../.codex/skills/a and ../../.config/grove/skills/b
RemoveArgs ==
    Names
    \cup {<<>>, <<".">>, DotDot,
          Arg(<<STR_a, DotDot, STR_b>>),
          Arg(<<DotDot, DotDot, Spell(".codex"), Spell("skills"), STR_a>>),
          Arg(<<DotDot, DotDot, Spell(".config"), Spell("grove"), Spell("skills"), STR_b>>)}

\* the providers whose user-scope roots are used
PathProviders == {"claude", "codex"}

NextPaths ==
    \/ \E name \in Names, provider \in PathProviders :
          Install(name, FALSE, FALSE, "none", provider, "user")
    \/ \E name \in RemoveArgs : Remove(name, "none", "claude", "user")
    \/ \E name \in Names : EditSource("user", name, "valid")

SpecPaths == Init /\ [][NextPaths]_vars

(***************************************************************************)
(* Two invocations side by side on one destination root.  A step is one    *)
(* call on the file system (os.Stat, os.RemoveAll, os.MkdirAll,            *)
(* os.WriteFile, os.ReadDir) or the reading of the sources; a process is   *)
(* install <name> or the standard sync, and runs once.                     *)
(***************************************************************************)
\* a skill of two files, as the project notebook offers it
TwoFiles(name, tag) == (SKILL_MD :> Manifest(name, tag)) @@ (NOTES_MD :> <<TextLine(<<tag>>)>>)

\* the runs a process may make: install b without --force from the project, and
\* sync --prune from outside any workspace, where b does not resolve
ConcurrentRuns ==
    { [op |-> "install", name |-> STR_b, force |-> FALSE, prune |-> FALSE, pos |-> "project"],
      [op |-> "sync", name |-> <<>>, force |-> syncForce, prune |-> TRUE, pos |-> "none"] }

Running(p) == procs[p].pc \notin {"idle", "done"}

statOutcomeNoGate(d, name, force) ==
    IF name \in DOMAIN d THEN "removeall" ELSE "mkdir"

\* what follows os.Stat(skillDestDir) in installSkill
statOutcome(d, name, force) ==
    IF name \in DOMAIN d THEN (IF force THEN "removeall" ELSE "exists") ELSE "mkdir"

remainingNone(todo, f) == {}

\* the files the write loop of installSkill still has to write after f
remaining(todo, f) == todo \ {f}

\* os.MkdirAll(dir): the directory is there afterwards, what it holds is kept
MkdirAll(d, name) == IF name \in DOMAIN d THEN d ELSE (name :> <<>>) @@ d

\* the process after installSkill has returned res for the skill at the head of
\* its queue: install <name> is over, sync marks the skill and goes on to the
\* next one, to the prune or to its end
Returned(pr, res) ==
    LET name == Head(pr.queue)
        rest == Tail(pr.queue)
    IN  [pr EXCEPT !.res = (name :> res) @@ @,
                   !.installed = @ \cup {name},
                   !.queue = rest,
                   !.files = <<>>,
                   !.todo = {},
                   !.cur = "",
                   !.pc = IF rest # <<>> THEN "lookup"
                          ELSE IF pr.op = "sync" /\ pr.prune THEN "readdir"
                          ELSE "done"]

\* the command starts: getInstallPath, and for sync ListSkillsWithService
Begin(p, run) ==
    /\ procs[p].pc = "idle"
    /\ \E basePath \in {getInstallPath("claude", "user", run.pos)} :
       \E queue \in {IF run.op = "install" THEN <<run.name>>
                     ELSE ListSkillsWithService(run.pos).names} :
          procs' = [procs EXCEPT ![p] =
                       [Idle EXCEPT !.op = run.op, !.pos = run.pos, !.force = run.force,
                                    !.prune = run.prune, !.root = basePath.path,
                                    !.queue = queue,
                                    !.pc = IF queue # <<>> THEN "lookup"
                                           ELSE IF run.prune THEN "readdir" ELSE "done"]]
    /\ overlapped' = (overlapped \/ \E q \in Procs \ {p} : Running(q))
    /\ UNCHANGED <<user, ecosystem, project, dest, last, out, edits, vin, vout>>

\* installSkill: GetSkillWithService and the validation
Lookup(p) ==
    /\ procs[p].pc = "lookup"
    /\ \E got \in {GetSkillWithService(procs[p].pos, Head(procs[p].queue))} :
          procs' = [procs EXCEPT ![p] =
                       IF ~got.ok THEN Returned(@, "notfound")
                       ELSE IF CheckManifest(got.files, Head(@.queue), @.skip) # "ok"
                       THEN Returned(@, CheckManifest(got.files, Head(@.queue), @.skip))
                       ELSE [@ EXCEPT !.files = got.files, !.pc = "stat"]]
    /\ UNCHANGED <<user, ecosystem, project, dest, last, out, edits, vin, vout, overlapped>>

\* installSkill: os.Stat(skillDestDir) and the overwrite gate
Stat(p) ==
    /\ procs[p].pc = "stat"
    /\ \E o \in {statOutcome(dest[procs[p].root], Head(procs[p].queue), procs[p].force)} :
          procs' = [procs EXCEPT ![p] =
                       IF o = "exists" THEN Returned(@, "exists") ELSE [@ EXCEPT !.pc = o]]
    /\ UNCHANGED <<user, ecosystem, project, dest, last, out, edits, vin, vout, overlapped>>

\* installSkill: os.RemoveAll(skillDestDir)
RemoveExisting(p) ==
    /\ procs[p].pc = "removeall"
    /\ dest' = [dest EXCEPT ![procs[p].root] = RemoveAll(@, Head(procs[p].queue))]
    /\ procs' = [procs EXCEPT ![p].pc = "mkdir"]
    /\ UNCHANGED <<user, ecosystem, project, last, out, edits, vin, vout, overlapped>>

\* installSkill: os.MkdirAll(skillDestDir)
Mkdir(p) ==
    /\ procs[p].pc = "mkdir"
    /\ dest' = [dest EXCEPT ![procs[p].root] = MkdirAll(@, Head(procs[p].queue))]
    /\ procs' = [procs EXCEPT ![p].pc = "write", ![p].todo = DOMAIN procs[p].files]
    /\ UNCHANGED <<user, ecosystem, project, last, out, edits, vin, vout, overlapped>>

\* installSkill, write loop: the next file of the map (in any order) and
\* os.MkdirAll(filepath.Dir(destPath))
FileDir(p, f) ==
    /\ procs[p].pc = "write"
    /\ f \in procs[p].todo
    /\ dest' = [dest EXCEPT ![procs[p].root] = MkdirAll(@, Head(procs[p].queue))]
    /\ procs' = [procs EXCEPT ![p].pc = "writefile", ![p].cur = f]
    /\ UNCHANGED <<user, ecosystem, project, last, out, edits, vin, vout, overlapped>>

\* installSkill, write loop: os.WriteFile(destPath), which fails when the
\* directory is gone; after the last file the install has succeeded
WriteFile(p) ==
    /\ procs[p].pc = "writefile"
    /\ LET pr == procs[p]
           name == Head(pr.queue)
           left == remaining(pr.todo, pr.cur)
       IN  IF name \in DOMAIN dest[pr.root]
           THEN /\ dest' = [dest EXCEPT ![pr.root][name] = (pr.cur :> pr.files[pr.cur]) @@ @]
                /\ procs' = [procs EXCEPT ![p] =
                                IF left = {} THEN Returned(@, "ok")
                                ELSE [@ EXCEPT !.todo = left, !.cur = "", !.pc = "write"]]
           ELSE /\ dest' = dest
                /\ procs' = [procs EXCEPT ![p] = Returned(@, "io")]
    /\ UNCHANGED <<user, ecosystem, project, last, out, edits, vin, vout, overlapped>>

\* pruneSkills: os.ReadDir(basePath)
ReadDir(p) ==
    /\ procs[p].pc = "readdir"
    /\ procs' = [procs EXCEPT ![p].entries = SortStrings(DOMAIN dest[procs[p].root]),
                              ![p].pc = "prune"]
    /\ UNCHANGED <<user, ecosystem, project, dest, last, out, edits, vin, vout, overlapped>>

\* pruneSkills: the next entry of the listing, removed with os.RemoveAll when it
\* is not in the installed map; after the last one the command is over
PruneOne(p) ==
    /\ procs[p].pc = "prune"
    /\ LET pr == procs[p]
       IN  IF pr.entries = <<>>
           THEN /\ dest' = dest
                /\ procs' = [procs EXCEPT ![p].pc = "done"]
           ELSE /\ dest' = IF Head(pr.entries) \in pr.installed THEN dest
                           ELSE [dest EXCEPT ![pr.root] = RemoveAll(@, Head(pr.entries))]
                /\ procs' = [procs EXCEPT ![p].entries = Tail(pr.entries)]
    /\ UNCHANGED <<user, ecosystem, project, last, out, edits, vin, vout, overlapped>>

InitConcurrent ==
    /\ user = <<>>
    /\ ecosystem = <<>>
    /\ project = (STR_b :> TwoFiles(STR_b, "project"))
    /\ dest = [r \in Roots |-> <<>>]
    /\ last = [op |-> "none", name |-> <<>>, force |-> FALSE, skip |-> FALSE,
               prune |-> FALSE, pos |-> "none", root |-> <<>>, results |-> <<>>,
               listed |-> <<>>, pre |-> [r \in Roots |-> <<>>],
               src |-> [user |-> <<>>, ecosystem |-> <<>>, project |-> <<>>]]
    /\ out = NoOutcome
    /\ edits = 0
    /\ SystemOnly
    /\ OneAtATime

NextConcurrent ==
    \/ \E p \in Procs, run \in ConcurrentRuns : Begin(p, run)
    \/ \E p \in Procs : Lookup(p)
    \/ \E p \in Procs : Stat(p)
    \/ \E p \in Procs : RemoveExisting(p)
    \/ \E p \in Procs : Mkdir(p)
    \/ \E p \in Procs, f \in {SKILL_MD, NOTES_MD} : FileDir(p, f)
    \/ \E p \in Procs : WriteFile(p)
    \/ \E p \in Procs : ReadDir(p)
    \/ \E p \in Procs : PruneOne(p)

SpecConcurrent == InitConcurrent /\ [][NextConcurrent]_vars

(***************************************************************************)
(* The validator on its own: ValidateSkillContent applied to a manifest    *)
(* drawn from a bounded set of contents and expected names.                *)
(***************************************************************************)
\* the pieces validator input names are concatenated from
Pieces == {<<"a">>, Rep("a", MaxNameLen - 1), <<"-">>, <<"A">>}

RECURSIVE Concats(_)
Concats(k) ==
    IF k = 0 THEN {<<>>}
    ELSE LET prev == Concats(k - 1)
         IN  prev \cup {p \o q : p \in prev, q \in Pieces}

NameInputs == Concats(MaxPieces)

DescriptionInputs ==
    {Rep("d", n) : n \in {0, 1, MaxDescriptionLen, MaxDescriptionLen + 1}}
    \cup {Rep(E_ACUTE, n) : n \in {MaxDescriptionLen \div 2, MaxDescriptionLen \div 2 + 1}}

\* the manifests written around a name n and a description d: the content, and
\* what the file says (whether its frontmatter is well formed, its name and
\* description fields; an absent field reads as the empty string)
ManifestInputs(n, d) ==
    { [content |-> <<DelimLine, NameLine(n), DescLine(d), DelimLine, TextLine(<<"body">>)>>,
       manifest |-> [parses |-> TRUE, name |-> n, description |-> d]],
      [content |-> <<DelimLine, DescLine(d), NameLine(n), DelimLine, DelimLine>>,
       manifest |-> [parses |-> TRUE, name |-> n, description |-> d]],
      [content |-> <<DelimLine, DescLine(d), DelimLine, NameLine(n)>>,
       manifest |-> [parses |-> TRUE, name |-> <<>>, description |-> d]],
      [content |-> <<DelimLine, NameLine(n), DelimLine>>,
       manifest |-> [parses |-> TRUE, name |-> n, description |-> <<>>]],
      [content |-> <<DelimLine, DelimLine, TextLine(<<"body">>)>>,
       manifest |-> [parses |-> TRUE, name |-> <<>>, description |-> <<>>]],
      [content |-> <<TextLine(<<"body">>), DelimLine, NameLine(n), DescLine(d), DelimLine>>,
       manifest |-> NoManifestInput],
      [content |-> <<DelimLine, NameLine(n), DescLine(d)>>,
       manifest |-> NoManifestInput],
      [content |-> <<DelimLine, NameLine(n), JunkLine, DescLine(d), DelimLine>>,
       manifest |-> NoManifestInput],
      [content |-> <<>>, manifest |-> NoManifestInput] }

ValidatorInputs ==
    { [content |-> m.content, expectedName |-> e, manifest |-> m.manifest] :
        m \in UNION {ManifestInputs(n, d) : n \in NameInputs, d \in DescriptionInputs},
        e \in {<<>>, <<"a">>, Rep("a", MaxNameLen)} }

Validate ==
    /\ vout = NotValidated
    /\ vout' = ValidateSkillContent(vin.content, vin.expectedName)
    /\ UNCHANGED <<user, ecosystem, project, dest, last, out, edits, vin, procs, overlapped>>

InitValidator ==
    /\ user = <<>>
    /\ ecosystem = <<>>
    /\ project = <<>>
    /\ dest = [r \in Roots |-> <<>>]
    /\ last = [op |-> "none", name |-> <<>>, force |-> FALSE, skip |-> FALSE,
               prune |-> FALSE, pos |-> "none", root |-> <<>>, results |-> <<>>,
               listed |-> <<>>, pre |-> [r \in Roots |-> <<>>],
               src |-> [user |-> <<>>, ecosystem |-> <<>>, project |-> <<>>]]
    /\ out = NoOutcome
    /\ edits = 0
    /\ vin \in ValidatorInputs
    /\ vout = NotValidated
    /\ OneAtATime

NextValidator == Validate

SpecValidator == InitValidator /\ [][NextValidator]_vars

(***************************************************************************)
(* Vocabulary of the properties.                                           *)
(***************************************************************************)
\* the fixed order built-in < user < notebook-ecosystem < notebook-project
Rank(dir) ==
    CASE dir = "builtin"   -> 0
      [] dir = "user"      -> 1
      [] dir = "ecosystem" -> 2
      [] dir = "project"   -> 3

\* the sources in reach at a position: the built-in and the user source always, the
\* notebook of the current workspace and of its ecosystem inside a workspace
SourcesAt(pos) ==
    LET node == GetProjectByPath(pos)
    IN  {"builtin", "user"}
        \cup (IF node.err THEN {}
              ELSE {GetSkillsDir(node.Path), GetSkillsDir(node.RootEcosystemPath)})

\* a source offers a name when it has a top-level subdirectory of that name
Offering(pos, name) == {dir \in SourcesAt(pos) : name \in DOMAIN Tree(dir)}

Offered(pos) == {name \in Names : Offering(pos, name) # {}}

Winner(pos, name) ==
    CHOOSE dir \in Offering(pos, name) :
        \A other \in Offering(pos, name) : Rank(other) <= Rank(dir)

\* the directory a SOURCE label of ListSkillsWithService stands for
LabelDir(pos, label) ==
    IF label = "notebook" THEN GetSkillsDir(GetProjectByPath(pos).Path) ELSE label

\* the directory `list` names for a skill at a position
ListedDir(pos, name) ==
    IF GetProjectByPath(pos).err
    THEN LabelDir(pos, ListSkillsWithService(pos).sources[name])
    ELSE ListSkillSources(pos)[name].Path

InRoot == last.root # <<>>

Before == last.pre[last.root]

After == dest[last.root]

ResolvedNames == DOMAIN ListSkillsWithService(last.pos).sources

\* the skill resolves and its manifest passes the validator
ValidArtifact(pos, name) ==
    LET got == GetSkillWithService(pos, name)
    IN  /\ got.ok
        /\ SKILL_MD \in DOMAIN got.files
        /\ ValidateSkillContent(got.files[SKILL_MD], name).kind = "ok"

\* the skill resolves and its manifest is absent, unparseable or in violation
HasViolation(pos, name) ==
    GetSkillWithService(pos, name).ok /\ ~ValidArtifact(pos, name)

SameEntry(name) ==
    /\ name \in DOMAIN Before <=> name \in DOMAIN After
    /\ name \in DOMAIN Before => After[name] = Before[name]

(***************************************************************************)
(* C1. Precedence invariant: at every position, each of the three resolved *)
(* views (ListSkillSources, ListSkillsWithService, the collection step of  *)
(* SyncSkillsToDirectory) maps every name offered by at least one source   *)
(* to the highest-ranked source offering it.                               *)
(***************************************************************************)
C1_PrecedenceInEveryView ==
    \A pos \in Pos : \A name \in Offered(pos) :
        /\ name \in DOMAIN ListSkillsWithService(pos).sources
        /\ LabelDir(pos, ListSkillsWithService(pos).sources[name]) = Winner(pos, name)
        /\ ~GetProjectByPath(pos).err =>
              /\ name \in DOMAIN ListSkillSources(pos)
              /\ ListSkillSources(pos)[name].Path = Winner(pos, name)
              /\ name \in DOMAIN SyncSkillsToDirectoryCollect(pos)
              /\ SyncSkillsToDirectoryCollect(pos)[name] = Winner(pos, name)

(***************************************************************************)
(* C2. A successful install of a name offered by more than one source      *)
(* writes the files of the highest-ranked source offering it.              *)
(***************************************************************************)
C2_InstallWritesHighestSource ==
    ( /\ last.op = "install"
      /\ InRoot
      /\ last.results[last.name] = "ok"
      /\ Cardinality(Offering(last.pos, last.name)) > 1 )
    => After[last.name] = Tree(Winner(last.pos, last.name))[last.name]

(***************************************************************************)
(* C3. Overwrite gate: an install without --force of a valid skill whose   *)
(* destination entry exists returns "already exists" and leaves every      *)
(* destination root as it was.                                             *)
(***************************************************************************)
C3_GateCase ==
    /\ last.op = "install"
    /\ InRoot
    /\ ~last.force
    /\ last.name \in DOMAIN Before
    /\ ValidArtifact(last.pos, last.name)

C3_OverwriteGate ==
    C3_GateCase => last.results[last.name] = "exists" /\ dest = last.pre

C3_Witness == C3_GateCase /\ last.results[last.name] = "exists"

(***************************************************************************)
(* C4. With validation on, a skill whose manifest is absent, unparseable   *)
(* or in violation is never installed: a single install fails and changes  *)
(* no destination; in a batch (install all, sync, where sync overwrites)   *)
(* its install fails and its destination entry is neither removed nor      *)
(* altered.                                                                *)
(***************************************************************************)
C4_InvalidNeverInstalled ==
    /\ ( /\ last.op = "install"
         /\ InRoot
         /\ ~last.skip
         /\ HasViolation(last.pos, last.name) )
       => /\ last.results[last.name] \in {"invalid", "nomanifest"}
          /\ dest = last.pre
    /\ ( /\ last.op \in {"install-all", "sync"}
         /\ InRoot
         /\ ~last.skip )
       => \A name \in DOMAIN last.results :
             HasViolation(last.pos, name) =>
                /\ last.results[name] \in {"invalid", "nomanifest"}
                /\ SameEntry(name)

C4_Witness ==
    /\ last.op = "sync"
    /\ InRoot
    /\ ~last.skip
    /\ \E name \in DOMAIN last.results :
          /\ HasViolation(last.pos, name)
          /\ name \in DOMAIN Before
          /\ name \in DOMAIN After

C7_OverwriteCase ==
    /\ last.op = "install"
    /\ InRoot
    /\ last.force
    /\ last.name \in DOMAIN Before
    /\ last.results[last.name] = "ok"

C7_OverwriteLeavesNoLeftover ==
    C7_OverwriteCase =>
        After[last.name] = GetSkillWithService(last.pos, last.name).files

C7_Witness ==
    /\ C7_OverwriteCase
    /\ DOMAIN Before[last.name] \ DOMAIN After[last.name] # {}

(***************************************************************************)
(* C8. One resolved view: what list reports at a position (names and the   *)
(* source of each) is what install all and sync attempt there, and every   *)
(* listed name resolves for install <name>, from the listed source.        *)
(***************************************************************************)
C8_ListMatchesInstall ==
    last.op = "list" =>
        /\ DOMAIN last.listed = DOMAIN ListSkillsWithService(last.pos).sources
        /\ \A name \in DOMAIN last.listed :
              /\ GetSkillWithService(last.pos, name).ok
              /\ GetSkillWithService(last.pos, name).files
                    = Tree(ListedDir(last.pos, name))[name]

(***************************************************************************)
(* C9. With --skip-validation, a skill that has files but no SKILL.md is   *)
(* still rejected: the install fails and writes nothing.                   *)
(***************************************************************************)
C9_NoManifestRejectedWhenSkipping ==
    ( /\ last.op = "install"
      /\ InRoot
      /\ last.skip
      /\ GetSkillWithService(last.pos, last.name).ok
      /\ SKILL_MD \notin DOMAIN GetSkillWithService(last.pos, last.name).files )
    => last.results[last.name] # "ok" /\ dest = last.pre

(***************************************************************************)
(* C11. Batches are best-effort: in install all and in sync, every name of *)
(* the resolved view is attempted whatever happened to the names before    *)
(* it (each gets the outcome its own install has on the entries as they    *)
(* were), and the command ends with success status; a skill that installs  *)
(* has its entry afterwards even when another one failed.                  *)
(***************************************************************************)
C11_BatchCase == last.op \in {"install-all", "sync"} /\ InRoot

C11_BatchIsBestEffort ==
    C11_BatchCase =>
        /\ out.exit = "ok"
        /\ DOMAIN last.results = ResolvedNames
        /\ \A name \in ResolvedNames :
              /\ last.results[name]
                    = installSkill(Before, name, last.force, last.skip, last.pos).res
              /\ last.results[name] = "ok" => name \in DOMAIN After

C11_Witness ==
    /\ C11_BatchCase
    /\ \E failed, later \in ResolvedNames :
          /\ StrLess(failed, later)
          /\ last.results[failed] # "ok"
          /\ last.results[later] = "ok"
          /\ later \notin DOMAIN Before
          /\ later \in DOMAIN After

(***************************************************************************)
(* C12. Sync installs with overwrite: no install of a sync is refused with *)
(* "already exists", an existing entry of a resolved skill that passes the *)
(* checks sync was asked to make is replaced by the skill's current files, *)
(* and a second sync of the same kind right after changes nothing.         *)
(***************************************************************************)
C12_SyncCase == last.op = "sync" /\ InRoot

C12_SyncOverwritesAndIsIdempotent ==
    C12_SyncCase =>
        /\ \A name \in ResolvedNames :
              /\ last.results[name] # "exists"
              /\ (ValidArtifact(last.pos, name) /\ name \in DOMAIN Before) =>
                    /\ last.results[name] = "ok"
                    /\ After[name] = GetSkillWithService(last.pos, name).files
        /\ standardSync(After, last.prune, last.skip, last.pos).d = After

C12_Witness ==
    /\ C12_SyncCase
    /\ \E name \in DOMAIN Before \cap ResolvedNames :
          /\ ValidArtifact(last.pos, name)
          /\ After[name] # Before[name]

(***************************************************************************)
(* C13. The resolved view follows the sources as they are at each          *)
(* invocation: whatever was offered or installed before, a name offered    *)
(* now resolves to the highest-ranked source offering it now, a sync with  *)
(* prune installs each offered skill that passes validation from that      *)
(* source, and removes every destination entry that no source offers.      *)
(***************************************************************************)
C13_SyncFollowsCurrentSources ==
    (last.op = "sync" /\ InRoot /\ last.prune /\ ~last.skip) =>
        /\ \A name \in Offered(last.pos) :
              LET files == Tree(Winner(last.pos, name))[name]
              IN  /\ name \in ResolvedNames
                  /\ LabelDir(last.pos, ListSkillsWithService(last.pos).sources[name])
                        = Winner(last.pos, name)
                  /\ ( /\ SKILL_MD \in DOMAIN files
                       /\ ValidateSkillContent(files[SKILL_MD], name).kind = "ok" )
                     => ( name \in DOMAIN After /\ After[name] = files )
        /\ \A name \in DOMAIN Before \ Offered(last.pos) : name \notin DOMAIN After

(***************************************************************************)
(* C14. sync --ecosystem run where the current directory is not the root   *)
(* of an ecosystem (a project of one, or no workspace at all) fails with   *)
(* the precondition error and changes no destination.                      *)
(***************************************************************************)
C14_OutsideEcosystemRoot ==
    /\ out.mode = "sync-ecosystem"
    /\ last.pos \in {"none", "project"}

C14_EcosystemFlagNeedsEcosystemRoot ==
    C14_OutsideEcosystemRoot =>
        /\ out.exit = "error"
        /\ out.msg = (IF last.pos = "none" THEN "no-workspace" ELSE "not-ecosystem")
        /\ dest = last.pre

C14_Witness ==
    /\ C14_OutsideEcosystemRoot
    /\ last.pos = "project"
    /\ out.exit = "error"
    /\ \E name \in Names : name \in DOMAIN ecosystem

(***************************************************************************)
(* C15. A completed sync --ecosystem changes the project-scope root of     *)
(* each child workspace, rooted at the child's own path, and no other      *)
(* root: the children are the workspaces whose parent or root ecosystem    *)
(* path is the ecosystem's, worktrees and the ecosystem itself excluded;   *)
(* each of those roots then holds every resolved skill that passes         *)
(* validation.                                                             *)
(***************************************************************************)
Supported(scope, provider) ==
    /\ scope \in {"user", "project", "repo-root", "admin"}
    /\ provider \in {"claude", "codex", "opencode"}
    /\ scope = "admin" => provider = "codex"

SuffixOf(scope, provider) ==
    CASE provider = "claude"   -> <<".claude", "skills">>
      [] provider = "codex"    -> IF scope = "admin" THEN <<"codex", "skills">>
                                  ELSE <<".codex", "skills">>
      [] provider = "opencode" -> <<".opencode", "skill">>

\* the child workspaces of the ecosystem the command is run at
ChildPaths ==
    LET here == Cwd(last.pos)
    IN  {p.Path : p \in {q \in WorkspaceNodes :
            /\ here \in {q.ParentEcosystemPath, q.RootEcosystemPath}
            /\ q.Kind # "worktree"
            /\ q.Path # here}}

ChildRoots ==
    IF Supported("project", out.provider)
    THEN {c \o SuffixOf("project", out.provider) : c \in ChildPaths}
    ELSE {}

C15_EcosystemSyncDone ==
    out.mode = "sync-ecosystem" /\ out.msg = "ecosystem-complete"

C15_OneRootPerChild ==
    C15_EcosystemSyncDone =>
        \A r \in Roots :
            IF r \in ChildRoots
            THEN \A name \in ResolvedNames :
                    ValidArtifact(last.pos, name) =>
                        /\ name \in DOMAIN dest[r]
                        /\ dest[r][name] = GetSkillWithService(last.pos, name).files
            ELSE dest[r] = last.pre[r]

C15_Witness ==
    /\ C15_EcosystemSyncDone
    /\ Cardinality(ChildRoots) = 2
    /\ \A r \in ChildRoots : STR_a \in DOMAIN dest[r] /\ last.pre[r] = <<>>
    /\ dest[<<"eco", ".claude", "skills">>] = <<>>

(***************************************************************************)
(* C16. sync --ecosystem at the root of an ecosystem without child         *)
(* workspaces ends with success status, with the no-children message and   *)
(* not the completion message, and changes no destination.                 *)
(***************************************************************************)
C16_NoChildrenCase ==
    /\ out.mode = "sync-ecosystem"
    /\ last.pos \in {"eco", "lone"}
    /\ ChildPaths = {}

C16_NoChildrenIsNotAnError ==
    C16_NoChildrenCase =>
        /\ out.exit = "ok"
        /\ out.msg = "no-children"
        /\ dest = last.pre

C16_Witness == C16_NoChildrenCase /\ out.msg = "no-children"

(***************************************************************************)
(* C17. Scope-to-path mapping: for every supported scope and provider the  *)
(* destination root of install is the scope's root directory joined with   *)
(* the provider's suffix, and a successful install changes the entry of    *)
(* the skill under that root and nothing else.                             *)
(***************************************************************************)
\* home for user, the current directory for project, its git root for repo-root,
\* /etc for admin
RootOf(scope, pos) ==
    CASE scope = "user"      -> <<"home">>
      [] scope = "project"   -> (CASE pos = "none" -> <<"work">>
                                   [] pos = "project" -> <<"eco", "projA">>
                                   [] pos = "eco" -> <<"eco">>
                                   [] pos = "lone" -> <<"lone">>)
      [] scope = "repo-root" -> (CASE pos = "none" -> <<"work">>
                                   [] pos = "project" -> <<"eco">>
                                   [] pos = "eco" -> <<"eco">>
                                   [] pos = "lone" -> <<"lone">>)
      [] scope = "admin"     -> <<"etc">>

C17_InstallCase ==
    /\ out.mode = "install"
    /\ Supported(out.scope, out.provider)

C17_ScopeToPath ==
    C17_InstallCase =>
        LET root == RootOf(out.scope, last.pos) \o SuffixOf(out.scope, out.provider)
        IN  /\ last.root = root
            /\ \A r \in Roots \ {root} : dest[r] = last.pre[r]
            /\ \A n \in (DOMAIN dest[root] \cup DOMAIN last.pre[root]) \ {last.name} :
                  /\ n \in DOMAIN dest[root] \cap DOMAIN last.pre[root]
                  /\ dest[root][n] = last.pre[root][n]
            /\ out.exit = "ok" => last.name \in DOMAIN dest[root]

C17_Witness ==
    /\ C17_InstallCase
    /\ out.scope = "admin"
    /\ out.exit = "ok"
    /\ last.name \in DOMAIN dest[<<"etc", "codex", "skills">>]
    /\ last.pre[<<"etc", "codex", "skills">>] = <<>>

(***************************************************************************)
(* C18. An invalid scope, an unsupported provider, or admin scope with a   *)
(* provider other than codex is fatal: install, remove and sync in each of *)
(* its modes fail with an error and change nothing.                        *)
(***************************************************************************)
C18_BadScopeIsFatal ==
    ( /\ out.mode \in {"install", "remove", "sync", "sync-ecosystem", "sync-here"}
      /\ ~Supported(out.scope, out.provider) )
    => (out.exit = "error" /\ dest = last.pre)

(***************************************************************************)
(* C19. remove <name>: when the destination root has no entry of that name *)
(* the command fails and changes nothing; when it has one the command      *)
(* succeeds, the entry is gone with everything in it, and nothing else is  *)
(* touched.                                                                *)
(***************************************************************************)
C19_RemoveCase == last.op = "remove" /\ InRoot

C19_Remove ==
    C19_RemoveCase =>
        IF last.name \in DOMAIN Before
        THEN /\ out.exit = "ok"
             /\ last.name \notin DOMAIN After
             /\ dest = [last.pre EXCEPT ![last.root] =
                            [n \in DOMAIN Before \ {last.name} |-> Before[n]]]
        ELSE /\ out.exit = "error"
             /\ dest = last.pre

C19_Witness ==
    /\ C19_RemoveCase
    /\ last.name \in DOMAIN Before
    /\ DOMAIN Before[last.name] # {}
    /\ last.name \notin DOMAIN After

(***************************************************************************)
(* C20. A read of a skill from a source fails with not found exactly when  *)
(* the source has no directory of that name or the directory holds no      *)
(* files; an install of a name that no source in reach can supply fails    *)
(* with not found and changes nothing, also over an existing entry with    *)
(* --force.                                                                *)
(***************************************************************************)
\* the source has a directory of that name with at least one file in it
Supplies(dir, name) == name \in DOMAIN Tree(dir) /\ DOMAIN Tree(dir)[name] # {}

C20_NotFoundCase ==
    /\ last.op = "install"
    /\ InRoot
    /\ \A dir \in SourcesAt(last.pos) : ~Supplies(dir, last.name)

C20_NotFound ==
    /\ \A dir \in {"user", "ecosystem", "project"} : \A name \in Names :
          readSkillFromDisk(dir, name).ok <=> Supplies(dir, name)
    /\ \A name \in Names : readSkillFromFS(name).ok <=> Supplies("builtin", name)
    /\ C20_NotFoundCase =>
          /\ last.results[last.name] = "notfound"
          /\ out.exit = "error"
          /\ dest = last.pre

C20_Witness ==
    /\ C20_NotFoundCase
    /\ last.force
    /\ last.name \in DOMAIN Before
    /\ last.results[last.name] = "notfound"

(***************************************************************************)
(* C21. sync --here copies every skill discoverable from the four sources, *)
(* each from the highest-ranked source offering it: after a completed run  *)
(* every offered name, one offered by the built-in source alone included,  *)
(* has an entry in the destination holding the files of that source.       *)
(***************************************************************************)
C21_HereSyncCopiesAllFourSources ==
    (out.mode = "sync-here" /\ out.exit = "ok") =>
        \A name \in Offered(last.pos) :
            /\ name \in DOMAIN After
            /\ \A f \in DOMAIN Tree(Winner(last.pos, name))[name] :
                  /\ f \in DOMAIN After[name]
                  /\ After[name][f] = Tree(Winner(last.pos, name))[name][f]

(***************************************************************************)
(* C22. After a completed sync with --prune, in the standard, the          *)
(* --ecosystem and the --here mode, every entry of each destination root   *)
(* it synced has a name that some source in reach offers.                  *)
(***************************************************************************)
\* the destination roots the last sync worked on
SyncedRoots ==
    CASE out.mode = "sync-ecosystem" ->
            (IF out.msg = "ecosystem-complete" THEN ChildRoots ELSE {})
      [] out.mode \in {"sync", "sync-here"} ->
            (IF InRoot THEN {last.root} ELSE {})
      [] OTHER -> {}

C22_PruneInEveryMode ==
    ( /\ out.mode \in {"sync", "sync-ecosystem", "sync-here"}
      /\ out.exit = "ok"
      /\ last.prune )
    => \A r \in SyncedRoots : DOMAIN dest[r] \subseteq Offered(last.pos)

C26_ReportedCountIsSuccesses ==
    out.count.said =>
        out.count.n = Cardinality({n \in DOMAIN last.results : last.results[n] = "ok"})

(***************************************************************************)
(* C29. Each skill is installed independently: install <name> changes no   *)
(* other entry of its destination root and no other root, whatever its     *)
(* flags and outcome; in a batch every skill whose install succeeded holds *)
(* its files afterwards although another one failed, a skill whose install *)
(* failed keeps its entry as it was, and no other root changes.            *)
(***************************************************************************)
C29_InstallCase == last.op \in {"install", "install-all", "sync"} /\ InRoot

C29_InstalledIndependently ==
    C29_InstallCase =>
        /\ \A r \in Roots \ {last.root} : dest[r] = last.pre[r]
        /\ last.op = "install" =>
              \A name \in (DOMAIN Before \cup DOMAIN After) \ {last.name} : SameEntry(name)
        /\ last.op \in {"install-all", "sync"} =>
              /\ \A name \in DOMAIN last.results :
                    IF last.results[name] = "ok"
                    THEN /\ name \in DOMAIN After
                         /\ After[name] = GetSkillWithService(last.pos, name).files
                    ELSE SameEntry(name)
              /\ ~last.prune =>
                    \A name \in (DOMAIN Before \cup DOMAIN After) \ DOMAIN last.results :
                        SameEntry(name)

C29_Witness ==
    /\ C29_InstallCase
    /\ last.op = "install-all"
    /\ \E early, failed \in DOMAIN last.results :
          /\ StrLess(early, failed)
          /\ last.results[early] = "ok"
          /\ early \notin DOMAIN Before
          /\ early \in DOMAIN After
          /\ last.results[failed] # "ok"

(***************************************************************************)
(* C25. Source discovery degrades instead of failing.  Outside a           *)
(* workspace, without a home directory and without a service, the resolved *)
(* view holds every name of the sources that are left, the built-in one    *)
(* always among them, and no name that only an unavailable source offers;  *)
(* every built-in skill resolves; list, install all and sync end with      *)
(* success status and cover every built-in skill, and install of a         *)
(* built-in skill that passes validation succeeds wherever the destination *)
(* root can be determined.                                                 *)
(***************************************************************************)
\* the sources that stay available at a position
KeptSources(pos) ==
    {"builtin"}
    \cup (IF HomeKnown(pos) THEN {"user"} ELSE {})
    \cup (IF ServiceReady(pos) /\ ~GetProjectByPath(pos).err
          THEN {GetSkillsDir(GetProjectByPath(pos).Path)} ELSE {})

\* the sources that may be consulted at a position
UsableSources(pos) ==
    KeptSources(pos)
    \cup (IF ServiceReady(pos) /\ ~GetProjectByPath(pos).err
          THEN {GetSkillsDir(GetProjectByPath(pos).RootEcosystemPath)} ELSE {})

BuiltinNames == DOMAIN embeddedSkillsFS

C25_DiscoveryDegrades ==
    /\ \A pos \in DegradedPos :
          LET view == DOMAIN ListSkillsWithService(pos).sources
          IN  /\ \A dir \in KeptSources(pos) : DOMAIN Tree(dir) \subseteq view
              /\ view \subseteq UNION {DOMAIN Tree(dir) : dir \in UsableSources(pos)}
              /\ \A name \in BuiltinNames : GetSkillWithService(pos, name).ok
    /\ last.pos \in DegradedPos =>
          /\ last.op = "list" =>
                out.exit = "ok" /\ BuiltinNames \subseteq DOMAIN last.listed
          /\ (last.op \in {"install-all", "sync"} /\ InRoot) =>
                out.exit = "ok" /\ BuiltinNames \subseteq DOMAIN last.results
          /\ ( /\ last.op = "install"
               /\ InRoot
               /\ last.name \in BuiltinNames
               /\ ValidArtifact(last.pos, last.name)
               /\ last.force \/ last.name \notin DOMAIN Before )
             => /\ out.exit = "ok"
                /\ After[last.name] = GetSkillWithService(last.pos, last.name).files

C25_Witness ==
    /\ last.pos = "nohome"
    /\ last.op = "install"
    /\ InRoot
    /\ last.name \in BuiltinNames \cap DOMAIN user
    /\ out.exit = "ok"
    /\ After[last.name] = embeddedSkillsFS[last.name]

(***************************************************************************)
(* C24. No command modifies a source: after list, install, install all,    *)
(* sync in any mode and remove, the user directory and the notebook        *)
(* directories are as they were before the command.                        *)
(***************************************************************************)
C24_SourcesNeverModified ==
    last.op \notin {"none", "edit"} =>
        /\ user = last.src.user
        /\ ecosystem = last.src.ecosystem
        /\ project = last.src.project

(***************************************************************************)
(* C30. remove <name> deletes at most the entry <name> of its destination  *)
(* root, whatever the argument: every other entry of the root is left as   *)
(* it was (so the root itself is not deleted), and so is every other       *)
(* destination root and the user skills directory.                         *)
(***************************************************************************)
C30_RemoveDeletesAtMostItsEntry ==
    (last.op = "remove" /\ InRoot) =>
        /\ \A name \in DOMAIN Before \ {last.name} :
              name \in DOMAIN After /\ After[name] = Before[name]
        /\ \A r \in Roots \ {last.root} : dest[r] = last.pre[r]
        /\ user = last.src.user

(***************************************************************************)
(* C27. Nothing in installSkill is held between its existence check and    *)
(* its writes: two install invocations of the same name, both without      *)
(* --force, into a root where the entry is absent, can both pass os.Stat   *)
(* and both write, and then both report success.  The overwrite gate is    *)
(* bypassed only so: whenever two such installs have both succeeded, the   *)
(* two invocations ran side by side (one after the other, the second       *)
(* reports that the skill already exists).                                 *)
(***************************************************************************)
BothInstalled(name) ==
    \A p \in Procs :
        /\ procs[p].pc = "done"
        /\ procs[p].op = "install"
        /\ ~procs[p].force
        /\ name \in DOMAIN procs[p].res
        /\ procs[p].res[name] = "ok"

C27_GateBypassedOnlySideBySide ==
    BothInstalled(STR_b) => overlapped

C27_Witness ==
    /\ BothInstalled(STR_b)
    /\ overlapped
    /\ \A p \in Procs : DOMAIN dest[procs[p].root][STR_b] = {SKILL_MD, NOTES_MD}

(***************************************************************************)
(* C28. A sync --prune whose resolved view lacks X, run beside an install  *)
(* of X (a skill of two files), can remove X's directory between two       *)
(* writes of the install: the install still reports success while the      *)
(* entry holds a strict subset of X's files.  With one invocation at a     *)
(* time a successful install leaves every file of X in the entry, so the   *)
(* state is reached only when the invocations ran side by side.            *)
(***************************************************************************)
PartialAfterSuccess(p, name) ==
    /\ procs[p].pc = "done"
    /\ procs[p].op = "install"
    /\ name \in DOMAIN procs[p].res
    /\ procs[p].res[name] = "ok"
    /\ name \in DOMAIN dest[procs[p].root]
    /\ DOMAIN dest[procs[p].root][name] # DOMAIN GetSkillWithService("project", name).files
    /\ DOMAIN dest[procs[p].root][name] \subseteq DOMAIN GetSkillWithService("project", name).files

C28_PartialOnlySideBySide ==
    \A p \in Procs : PartialAfterSuccess(p, STR_b) => overlapped

C28_Witness ==
    \E p \in Procs, q \in Procs :
        /\ PartialAfterSuccess(p, STR_b)
        /\ procs[q].op = "sync"
        /\ procs[q].prune
        /\ procs[q].pc = "done"
        /\ STR_b \notin procs[q].installed
        /\ dest[procs[p].root][STR_b] # <<>>
        /\ overlapped

(***************************************************************************)
(* C10. Validation completeness (checked under SpecValidator): for a       *)
(* manifest whose frontmatter is well formed, one call returns ok exactly  *)
(* when no rule is violated, and otherwise a single ValidationError that   *)
(* lists every violated rule: name missing; name longer than 64            *)
(* characters; name not lowercase alphanumeric segments joined by single   *)
(* hyphens; name unlike the expected name, when one is given; description  *)
(* missing; description longer than 1024 characters.  The three rules on   *)
(* the form of the name are about a name that is present.                  *)
(***************************************************************************)
SegmentsJoinedBySingleHyphens(n) ==
    /\ n # <<>>
    /\ \A i \in 1..Len(n) : n[i] \in AlNum \cup {"-"}
    /\ n[1] # "-"
    /\ n[Len(n)] # "-"
    /\ \A i \in 1..(Len(n) - 1) : ~(n[i] = "-" /\ n[i + 1] = "-")

RuleViolated(rule, m, expected) ==
    CASE rule = E_MissingName -> m.name = <<>>
      [] rule = E_NameTooLong -> m.name # <<>> /\ Len(m.name) >= MaxNameLen + 1
      [] rule = E_NamePattern -> m.name # <<>> /\ ~SegmentsJoinedBySingleHyphens(m.name)
      [] rule = E_NameMismatch -> m.name # <<>> /\ expected # <<>> /\ m.name # expected
      [] rule = E_MissingDescription -> m.description = <<>>
      [] rule = E_DescriptionTooLong -> Len(m.description) >= MaxDescriptionLen + 1

ViolatedRules(m, expected) ==
    {rule \in {E_MissingName, E_NameTooLong, E_NamePattern, E_NameMismatch,
               E_MissingDescription, E_DescriptionTooLong} :
        RuleViolated(rule, m, expected)}

C10_ValidationComplete ==
    (vout.kind # "none" /\ vin.manifest.parses) =>
        LET V == ViolatedRules(vin.manifest, vin.expectedName)
        IN  /\ vout.kind = "ok" <=> V = {}
            /\ V # {} =>
                  /\ vout.kind = "validation"
                  /\ V \subseteq {vout.Errors[i] : i \in 1..Len(vout.Errors)}

====
